---- MODULE Spec2Model ----
(***************************************************************************)
(* i2cio: the command parser and transaction batching state machine of     *)
(* src/i2cio.c (main and transact), as a state machine over the token      *)
(* stream read from stdin.                                                 *)
(*                                                                         *)
(* One action per token handler of the switch in main (R, W, ;, D, a       *)
(* numeric field, an invalid character) and one for the end-of-input       *)
(* switch.  A die() is the assignment of a terminal value to status.       *)
(*                                                                         *)
(* The C array msgs[MAXMSGS] is the sequence msgs: C slot i is msgs[i+1].  *)
(* Only the slots the program can still read are kept (0..nmsgs-1, and     *)
(* slot nmsgs while a message is under construction).                      *)
(*                                                                         *)
(* Numbers wider than TLC's integers are sequences of 16-bit limbs, least  *)
(* significant first: <<5, 0, 1>> is 2^32 + 5.                             *)
(***************************************************************************)
EXTENDS Integers, Sequences, FiniteSets, TLC

\* ---------------------------------------------------------------- bounds

\* Capacity of a transaction.  The source sets it to I2C_RDWR_IOCTL_MAX_MSGS
\* (42); the parser only ever compares against it, so the model is checked
\* at a reduced capacity.
MAXMSGS == 2

\* Capacity of a message buffer (256 in the source), likewise reduced.
MAXLEN == 2

\* Number of tokens read from the input before only end of input is left.
MaxTokens == 10

\* ------------------------------------------------------------- constants

I2C_M_RD == 1

\* enum of parser states
INIT == "INIT"
IDLE == "IDLE"
READ == "READ"
WRITE == "WRITE"
WRITING == "WRITING"
ADDR == "ADDR"
BUS == "BUS"

States == {INIT, IDLE, READ, WRITE, WRITING, ADDR, BUS}

\* ------------------------------------------------------------- numbers

\* limb i of a literal, 0 beyond its length
Limb(lit, i) == IF i <= Len(lit) THEN lit[i] ELSE 0

\* the literal does not fit in k limbs
Overflows(lit, k) == \E i \in (k + 1)..Len(lit) : lit[i] # 0

\* strtoul(): the value in an unsigned long of k limbs, ULONG_MAX on overflow
strtoul(lit, k) ==
    IF Overflows(lit, k) THEN [i \in 1..k |-> 65535]
                         ELSE [i \in 1..k |-> Limb(lit, i)]

\* unsigned int N = (unsigned long value): the low 32 bits
ToUInt(v) == <<v[1], v[2]>>

\* comparisons of an unsigned int with a constant below 2^16
UGt(N, c) == N[2] > 0 \/ N[1] > c
ULt(N, c) == N[2] = 0 /\ N[1] < c

\* the numeric value of a literal as written, compared with a constant
LitGt(lit, c) == (\E i \in 2..Len(lit) : lit[i] # 0) \/ Limb(lit, 1) > c
LitLt(lit, c) == ~LitGt(lit, c) /\ Limb(lit, 1) # c

\* ----------------------------------------------------------------- state

VARIABLES
    dryrun,      \* -n
    binary,      \* -b
    longLimbs,   \* width of unsigned long in limbs: 2 (ILP32) or 4 (LP64)
    state,       \* parser state
    addr,        \* current I2C device address
    i2cfd,       \* current bus file descriptor
    msgs,        \* the transaction being built
    nmsgs,       \* number of messages in current transaction
    errno,       \* TRUE when errno is nonzero
    status,      \* "running", "exit0", or the reason of die()
    fdtable,     \* open bus descriptors: set of [fd, bus]
    dispatches,  \* history: the calls of transact
    out,         \* history: what was written to stdout, one entry per read
    created,     \* history: number of R and W statements accepted
    dseen,       \* history: a `D addr bus` has completed
    ntok,        \* history: tokens consumed
    last,        \* history: the token handled last, the state it met and
                 \* the number of transact calls made before it
    stdin,       \* the characters of standard input not yet read
    line,        \* the line returned by getline, <<>> when none is held
    ofs,         \* offset of the scan in line, from 0
    lines,       \* line counter
    canon,       \* history: the tokens the input was written from, each
                 \* with its text and the separator written after it
    follow       \* history: the character after the last numeric field

vars == <<dryrun, binary, longLimbs, state, addr, i2cfd, msgs, nmsgs, errno,
          status, fdtable, dispatches, out, created, dseen, ntok, last,
          stdin, line, ofs, lines, canon, follow>>

\* the variables of the line and character scan
lexvars == <<stdin, line, ofs, lines, canon, follow>>

\* the end of a C string
NUL == "NUL"

NoTok == [tok |-> "none", lit |-> <<>>, state |-> INIT, ndisp |-> 0]

InitMain ==
    /\ dryrun \in BOOLEAN
    /\ binary \in BOOLEAN
    /\ longLimbs \in {2, 4}
    /\ state = INIT
    /\ addr = 0
    /\ i2cfd = -1
    /\ msgs = <<>>
    /\ nmsgs = 0
    /\ errno = FALSE
    /\ status = "running"
    /\ fdtable = {}
    /\ dispatches = <<>>
    /\ out = <<>>
    /\ created = 0
    /\ dseen = FALSE
    /\ ntok = 0
    /\ last = NoTok
    /\ line = <<>>
    /\ ofs = 0
    /\ lines = 1
    /\ follow = NUL

\* the input is given as tokens, not as text
Init ==
    /\ InitMain
    /\ stdin = <<>>
    /\ canon = <<>>

\* ---------------------------------------------------------------- inputs

\* the numeric fields offered to the parser in each state
AddrLits == {<<3>>, <<127>>, <<128>>, <<3, 0, 1>>}
BusLits == {<<0>>, <<1>>, <<1, 0, 0, 0, 1>>}
LenLits == {<<0>>, <<1>>, <<MAXLEN>>, <<MAXLEN + 1>>, <<1, 0, 1>>}
ByteLits == {<<6>>, <<255>>, <<256>>, <<300>>, <<6, 0, 1>>}

NumLits(st) ==
    CASE st = ADDR -> AddrLits
      [] st = BUS -> BusLits
      [] st = READ -> LenLits
      [] st \in {WRITE, WRITING} -> ByteLits
      [] OTHER -> {<<1>>}

\* ------------------------------------------------------------- transact

IsRead(m) == m.flags = I2C_M_RD

\* the buffer of a read message when it is printed: memset(buf, 0x55, len)
\* in a dry run, otherwise whatever the device sent (-1: not known)
ReadData(len) == [i \in 1..len |-> IF dryrun THEN 85 ELSE -1]

\* what transact prints: one entry per read message, in message order
ReadOutputs(batch) ==
    LET reads == SelectSeq(batch, IsRead)
    IN  [i \in 1..Len(reads) |->
            [id |-> reads[i].id, len |-> reads[i].len,
             data |-> ReadData(reads[i].len),
             filler |-> dryrun, raw |-> binary]]

\* results the I2C_RDWR ioctl can have: it is not called in a dry run, and
\* it fails on a descriptor that is not open
IoctlResults ==
    IF dryrun THEN {TRUE}
    ELSE IF \E e \in fdtable : e.fd = i2cfd THEN {TRUE, FALSE}
    ELSE {FALSE}

\* transact printing the buffers although the ioctl failed
TransactPrintsAnyway(n, ok) ==
    /\ dispatches' = Append(dispatches,
           [msgs |-> SubSeq(msgs, 1, n), nmsgs |-> n, fd |-> i2cfd,
            ioctl |-> IF dryrun THEN "skipped" ELSE IF ok THEN "ok" ELSE "failed"])
    /\ out' = out \o ReadOutputs(SubSeq(msgs, 1, n))

\* transact(msgs, nmsgs, i2cfd) on the first n messages
Transact(n, ok) ==
    /\ dispatches' = Append(dispatches,
           [msgs |-> SubSeq(msgs, 1, n), nmsgs |-> n, fd |-> i2cfd,
            ioctl |-> IF dryrun THEN "skipped" ELSE IF ok THEN "ok" ELSE "failed"])
    /\ out' = IF ok THEN out \o ReadOutputs(SubSeq(msgs, 1, n)) ELSE out

\* a call of transact from a token handler: n messages are dispatched, and
\* when it returns, nmsgs becomes after and the parser enters next
Dispatch(n, after, next) ==
    \E ok \in IoctlResults :
        /\ Transact(n, ok)
        /\ IF ok
           THEN /\ nmsgs' = after
                /\ msgs' = SubSeq(msgs, 1, after)
                /\ state' = next
                /\ status' = "running"
           ELSE /\ nmsgs' = n
                /\ msgs' = msgs
                /\ state' = state
                /\ status' = "ioctl"

\* die() before anything else changed
Die(why) ==
    /\ status' = why
    /\ UNCHANGED <<state, addr, i2cfd, msgs, nmsgs, fdtable, dispatches, out,
                   created, dseen>>

\* a token is taken from the input
Consume(t, lit) ==
    /\ status = "running"
    /\ ntok < MaxTokens
    /\ ntok' = ntok + 1
    /\ last' = [tok |-> t, lit |-> lit, state |-> state,
                 ndisp |-> Len(dispatches)]
    /\ UNCHANGED <<dryrun, binary, longLimbs>>

\* ------------------------------------------------------------- R and W

\* the capacity test off by one
CapacityExceededLate(n) == n > MAXMSGS

\* if (nmsgs >= MAXMSGS) die("Max %d messages per transaction")
CapacityExceeded(n) == n >= MAXMSGS

\* msgs[n] = m: slot n of the C array
SetSlot(n, m) == Append(SubSeq(msgs, 1, n), m)

\* init next message
NewMsg(flags) ==
    [addr |-> addr, flags |-> flags, len |-> 0, buf |-> <<>>,
     id |-> created + 1, given |-> <<>>]

\* case 'R' and case 'W': add a message to the transaction
AddMessage(flags, next) ==
    IF state \notin {WRITING, IDLE}
    THEN Die("unexpected")
    ELSE LET n == IF state = WRITING THEN nmsgs + 1 ELSE nmsgs
         IN  /\ nmsgs' = n
             /\ UNCHANGED <<addr, i2cfd, fdtable, dispatches, out, dseen>>
             /\ IF CapacityExceeded(n)
                THEN /\ status' = "capacity"
                     /\ UNCHANGED <<state, msgs, created>>
                ELSE /\ msgs' = SetSlot(n, NewMsg(flags))
                     /\ created' = created + 1
                     /\ state' = next
                     /\ status' = "running"

CaseR ==
    /\ Consume("R", <<>>)
    /\ AddMessage(I2C_M_RD, READ)
    /\ UNCHANGED errno

CaseW ==
    /\ Consume("W", <<>>)
    /\ AddMessage(0, WRITE)
    /\ UNCHANGED errno

\* ------------------------------------------------------------- ; and D

\* the test with no pending message taken for one
PendingAlways(n) == TRUE

\* if (nmsgs): the transaction has messages to dispatch
Pending(n) == n # 0

\* nmsgs after the transact call of case ';'
AfterSemi(n) == 0

\* case 'D' never resetting nmsgs
AfterDKeeps(st, n) == n

\* nmsgs after the transact call of case 'D': state WRITING resets it,
\* state IDLE leaves it as it is
AfterD(st, n) == IF st = WRITING THEN 0 ELSE n

\* case ';': end current transaction and return idle
CaseSemi ==
    /\ Consume(";", <<>>)
    /\ UNCHANGED <<errno, addr, i2cfd, fdtable, created, dseen>>
    /\ CASE state = WRITING -> Dispatch(nmsgs + 1, AfterSemi(nmsgs + 1), IDLE)
         [] state = IDLE /\ Pending(nmsgs) -> Dispatch(nmsgs, AfterSemi(nmsgs), IDLE)
         [] state = INIT \/ (state = IDLE /\ ~Pending(nmsgs)) ->
                /\ state' = IDLE
                /\ UNCHANGED <<msgs, nmsgs, status, dispatches, out>>
         [] OTHER ->
                /\ status' = "unexpected"
                /\ UNCHANGED <<state, msgs, nmsgs, dispatches, out>>

\* case 'D': set device address and bus
CaseD ==
    /\ Consume("D", <<>>)
    /\ UNCHANGED <<errno, addr, i2cfd, fdtable, created, dseen>>
    /\ CASE state = WRITING -> Dispatch(nmsgs + 1, AfterD(state, nmsgs + 1), ADDR)
         [] state = IDLE /\ Pending(nmsgs) -> Dispatch(nmsgs, AfterD(state, nmsgs), ADDR)
         [] state = INIT \/ (state = IDLE /\ ~Pending(nmsgs)) ->
                /\ state' = ADDR
                /\ UNCHANGED <<msgs, nmsgs, status, dispatches, out>>
         [] OTHER ->
                /\ status' = "unexpected"
                /\ UNCHANGED <<state, msgs, nmsgs, dispatches, out>>

\* -------------------------------------------------------- numeric field

\* if (N > 127) die("Device address exceeds 127")
AddrBad(N) == UGt(N, 127)

\* if (N < 1 || N > MAXLEN) die("Read length must be 1 to %d")
ReadLenBad(N) == ULt(N, 1) \/ UGt(N, MAXLEN)

\* the write value test left out
WriteByteBadNever(N) == FALSE

\* if (N > 255) die("Write value exceeds 255")
WriteByteBad(N) == UGt(N, 255)

\* the write length test off by one
WriteLenExceededLate(len) == len > MAXLEN + 1

\* if (msgs[nmsgs].len > MAXLEN) die("Write length exceeds %d")
WriteLenExceeded(len) == len > MAXLEN

\* open() returns the lowest descriptor not in use; 0, 1 and 2 are stdio
LowestFreeFd(tbl) ==
    CHOOSE f \in 3..(3 + Cardinality(tbl)) :
        /\ \A e \in tbl : e.fd # f
        /\ \A g \in 3..(f - 1) : \E e \in tbl : e.fd = g

\* results open("/dev/i2c-%d") can have: N is printed as a signed int, and
\* the kernel numbers its adapters from 0, so a negative number names no
\* device node
OpenResults(N) == IF N[2] >= 32768 THEN {FALSE} ELSE {TRUE, FALSE}

\* the descriptor table after if (i2cfd > 0) close(i2cfd)
CloseExisting(tbl, fd) == IF fd > 0 THEN {e \in tbl : e.fd # fd} ELSE tbl

\* msgs[nmsgs].buf[msgs[nmsgs].len++] = N
StoreByte(m, N) ==
    [m EXCEPT !.buf = Append(SubSeq(m.buf, 1, m.len), N[1]),
              !.len = m.len + 1,
              !.given = Append(m.given, N)]

\* msgs[nmsgs].len = N
StoreLen(m, N) == [m EXCEPT !.len = N[1], !.given = <<N>>]

NumAddr(N) ==
    /\ UNCHANGED <<i2cfd, fdtable, msgs, nmsgs, dispatches, out, created, dseen>>
    /\ IF AddrBad(N)
       THEN status' = "range_addr" /\ UNCHANGED <<addr, state>>
       ELSE addr' = N[1] /\ state' = BUS /\ status' = "running"

\* the bus opened in a dry run too
NumBusOpensAlways(N) ==
    /\ UNCHANGED <<addr, msgs, nmsgs, dispatches, out, created>>
    /\ \E opened \in OpenResults(N) :
          LET closed == CloseExisting(fdtable, i2cfd)
              fd == LowestFreeFd(closed)
          IN  IF opened
              THEN /\ i2cfd' = fd
                   /\ fdtable' = closed \cup {[fd |-> fd, bus |-> N]}
                   /\ state' = IDLE
                   /\ dseen' = TRUE
                   /\ status' = "running"
              ELSE /\ i2cfd' = -1
                   /\ fdtable' = closed
                   /\ status' = "bus"
                   /\ UNCHANGED <<state, dseen>>

NumBus(N) ==
    /\ UNCHANGED <<addr, msgs, nmsgs, dispatches, out, created>>
    /\ IF dryrun
       THEN /\ state' = IDLE
            /\ dseen' = TRUE
            /\ status' = "running"
            /\ UNCHANGED <<i2cfd, fdtable>>
       ELSE \E opened \in OpenResults(N) :
              LET closed == CloseExisting(fdtable, i2cfd)
                  fd == LowestFreeFd(closed)
              IN  IF opened
                  THEN /\ i2cfd' = fd
                       /\ fdtable' = closed \cup {[fd |-> fd, bus |-> N]}
                       /\ state' = IDLE
                       /\ dseen' = TRUE
                       /\ status' = "running"
                  ELSE /\ i2cfd' = -1
                       /\ fdtable' = closed
                       /\ status' = "bus"
                       /\ UNCHANGED <<state, dseen>>

NumRead(N) ==
    /\ UNCHANGED <<addr, i2cfd, fdtable, dispatches, out, created, dseen>>
    /\ IF ReadLenBad(N)
       THEN status' = "range_read" /\ UNCHANGED <<msgs, nmsgs, state>>
       ELSE /\ msgs' = [msgs EXCEPT ![nmsgs + 1] = StoreLen(@, N)]
            /\ nmsgs' = nmsgs + 1
            /\ state' = IDLE
            /\ status' = "running"

NumWrite(N) ==
    /\ UNCHANGED <<addr, i2cfd, fdtable, nmsgs, dispatches, out, created, dseen>>
    /\ IF WriteByteBad(N)
       THEN status' = "range_write" /\ UNCHANGED <<msgs, state>>
       ELSE /\ msgs' = [msgs EXCEPT ![nmsgs + 1] = StoreByte(@, N)]
            /\ IF WriteLenExceeded(msgs[nmsgs + 1].len + 1)
               THEN status' = "write_len" /\ UNCHANGED state
               ELSE state' = WRITING /\ status' = "running"

\* case '0' ... '9'
CaseNum(lit) ==
    LET N == ToUInt(strtoul(lit, longLimbs))
    IN  /\ Consume("num", lit)
        /\ errno' = (errno \/ Overflows(lit, longLimbs))
        /\ CASE state = ADDR -> NumAddr(N)
             [] state = BUS -> NumBus(N)
             [] state = READ -> NumRead(N)
             [] state \in {WRITE, WRITING} -> NumWrite(N)
             [] OTHER -> Die("unexpected")

\* default: die("Invalid '%c' line %d offset %d")
CaseDefault ==
    /\ Consume("invalid", <<>>)
    /\ Die("invalid")
    /\ UNCHANGED errno

\* --------------------------------------------------------- end of input

\* getline() < 0 at end of file: errno is whatever an earlier call left
AtEof ==
    /\ status = "running"
    /\ last' = [tok |-> "eof", lit |-> <<>>, state |-> state,
                 ndisp |-> Len(dispatches)]
    /\ UNCHANGED <<dryrun, binary, longLimbs, errno, addr, i2cfd, fdtable,
                   created, dseen, ntok, state, msgs>>
    /\ IF errno
       THEN status' = "input_error" /\ UNCHANGED <<nmsgs, dispatches, out>>
       ELSE CASE state = WRITING ->
                  \E ok \in IoctlResults :
                      /\ nmsgs' = nmsgs + 1
                      /\ Transact(nmsgs + 1, ok)
                      /\ status' = IF ok THEN "exit0" ELSE "ioctl"
              [] state = IDLE /\ Pending(nmsgs) ->
                  \E ok \in IoctlResults :
                      /\ Transact(nmsgs, ok)
                      /\ status' = IF ok THEN "exit0" ELSE "ioctl"
                      /\ UNCHANGED nmsgs
              [] state = IDLE /\ ~Pending(nmsgs) ->
                  status' = "exit0" /\ UNCHANGED <<nmsgs, dispatches, out>>
              [] OTHER ->
                  status' = "eof" /\ UNCHANGED <<nmsgs, dispatches, out>>

\* the tokens arrive one by one, the text they came from is not modelled
TokR == CaseR /\ UNCHANGED lexvars

TokW == CaseW /\ UNCHANGED lexvars

TokSemi == CaseSemi /\ UNCHANGED lexvars

TokD == CaseD /\ UNCHANGED lexvars

TokNum == \E lit \in NumLits(state) : CaseNum(lit) /\ UNCHANGED lexvars

TokInvalid == CaseDefault /\ UNCHANGED lexvars

EndOfInput == AtEof /\ UNCHANGED lexvars

Next == TokR \/ TokW \/ TokSemi \/ TokD \/ TokNum \/ TokInvalid \/ EndOfInput

Spec == Init /\ [][Next]_vars

\* ------------------------------------------------- lines and characters

LowerCase == <<"a", "b", "c", "d", "e", "f", "g", "h", "i", "j", "k", "l", "m",
               "n", "o", "p", "q", "r", "s", "t", "u", "v", "w", "x", "y", "z">>
UpperCase == <<"A", "B", "C", "D", "E", "F", "G", "H", "I", "J", "K", "L", "M",
               "N", "O", "P", "Q", "R", "S", "T", "U", "V", "W", "X", "Y", "Z">>

\* the conversion to upper case left out
toupperNot(c) == c

toupper(c) ==
    IF \E i \in 1..26 : LowerCase[i] = c
    THEN UpperCase[CHOOSE i \in 1..26 : LowerCase[i] = c]
    ELSE c

\* isspace in the C locale (the vertical tab has no notation here)
isspace(c) == c \in {" ", "\t", "\n", "\f", "\r"}

\* line[o], the terminating NUL included
CharAt(l, o) == IF o < Len(l) THEN l[o + 1] ELSE NUL

\* while (isspace(line[ofs])) ofs++
RECURSIVE SkipSpace(_, _)
SkipSpace(l, o) == IF isspace(CharAt(l, o)) THEN SkipSpace(l, o + 1) ELSE o

\* the length of the line getline returns: up to and with the first newline
LineLen(txt) ==
    IF \E i \in 1..Len(txt) : txt[i] = "\n"
    THEN CHOOSE i \in 1..Len(txt) :
             txt[i] = "\n" /\ \A j \in 1..(i - 1) : txt[j] # "\n"
    ELSE Len(txt)

\* strtoul with base 0: the value of a digit, 16 for a character that is none
HexDigits == <<"0", "1", "2", "3", "4", "5", "6", "7", "8", "9",
               "A", "B", "C", "D", "E", "F">>
DigitVal(c) ==
    IF \E i \in 1..16 : HexDigits[i] = toupper(c)
    THEN (CHOOSE i \in 1..16 : HexDigits[i] = toupper(c)) - 1
    ELSE 16

\* strtoul with base 0: 0x and a hex digit is base 16, 0 is base 8, else 10
BaseAt(l, o) ==
    IF CharAt(l, o) = "0" /\ toupper(CharAt(l, o + 1)) = "X"
          /\ DigitVal(CharAt(l, o + 2)) < 16
    THEN 16
    ELSE IF CharAt(l, o) = "0" THEN 8 ELSE 10

\* strtoul: the digits of the number start after the 0x prefix
DigitsStart(l, o) == IF BaseAt(l, o) = 16 THEN o + 2 ELSE o

\* strtoul: *end, after the longest run of digits of the base
RECURSIVE DigitsEnd(_, _, _)
DigitsEnd(l, o, base) ==
    IF DigitVal(CharAt(l, o)) < base THEN DigitsEnd(l, o + 1, base) ELSE o

\* strtoul: v * base + carry on a number of 16-bit limbs
RECURSIVE MulAdd(_, _, _)
MulAdd(v, base, carry) ==
    IF v = <<>>
    THEN IF carry = 0 THEN <<>> ELSE <<carry>>
    ELSE LET x == v[1] * base + carry
         IN  <<x % 65536>> \o MulAdd(Tail(v), base, x \div 65536)

\* strtoul: the number written by the digits l[from] .. l[to - 1]
RECURSIVE DigitsValue(_, _, _, _)
DigitsValue(l, from, to, base) ==
    IF to = from
    THEN <<0>>
    ELSE MulAdd(DigitsValue(l, from, to - 1, base), base,
                DigitVal(CharAt(l, to - 1)))

\* the variables of the parser and its history
mainvars == <<dryrun, binary, longLimbs, state, addr, i2cfd, msgs, nmsgs,
              errno, status, fdtable, dispatches, out, created, dseen, ntok,
              last>>

\* getline(&line, &size, stdin) >= 0; int ofs = 0
GetLine ==
    /\ status = "running"
    /\ line = <<>>
    /\ stdin # <<>>
    /\ line' = SubSeq(stdin, 1, LineLen(stdin))
    /\ stdin' = SubSeq(stdin, LineLen(stdin) + 1, Len(stdin))
    /\ ofs' = 0
    /\ UNCHANGED <<mainvars, lines, canon, follow>>

\* if (line[ofs] == 0 || line[ofs] == '#') break; free(line); lines++
EndOfLine ==
    /\ status = "running"
    /\ line # <<>>
    /\ CharAt(line, SkipSpace(line, ofs)) \in {NUL, "#"}
    /\ line' = <<>>
    /\ ofs' = 0
    /\ lines' = lines + 1
    /\ UNCHANGED <<mainvars, stdin, canon, follow>>

\* toupper(line[ofs]) once the blanks are skipped
Cur == toupper(CharAt(line, SkipSpace(line, ofs)))

\* one turn of the inner loop: the blanks are skipped, the case that the
\* character selects is taken, and ofs moves n characters on unless it died
LexCase(selected, case, n) ==
    LET o == SkipSpace(line, ofs)
    IN  /\ line # <<>>
        /\ selected
        /\ case
        /\ ofs' = (IF status' = "running" THEN o + n ELSE o)
        /\ follow' = NUL
        /\ UNCHANGED <<stdin, line, lines, canon>>

IsR(c) == c = "R"
IsW(c) == c = "W"
IsSemi(c) == c = ";"
IsD(c) == c = "D"
IsDigit(c) == DigitVal(c) < 10
IsOther(c) == c \notin {NUL, "#", "R", "W", ";", "D"} /\ ~IsDigit(c)

LexR == LexCase(IsR(Cur), CaseR, 1)

LexW == LexCase(IsW(Cur), CaseW, 1)

LexSemi == LexCase(IsSemi(Cur), CaseSemi, 1)

LexD == LexCase(IsD(Cur), CaseD, 1)

LexDefault == LexCase(IsOther(Cur), CaseDefault, 0)

\* case '0' ... '9': strtoul(line+ofs, &end, 0); ofs = (int)(end-line)
LexNum ==
    LET o == SkipSpace(line, ofs)
        base == BaseAt(line, o)
        end == DigitsEnd(line, DigitsStart(line, o), base)
    IN  /\ line # <<>>
        /\ IsDigit(CharAt(line, o))
        /\ CaseNum(DigitsValue(line, DigitsStart(line, o), end, base))
        /\ ofs' = (IF status' = "running" THEN end ELSE o)
        /\ follow' = CharAt(line, end)
        /\ UNCHANGED <<stdin, line, lines, canon>>

\* getline() < 0
LexEndOfInput ==
    /\ line = <<>>
    /\ stdin = <<>>
    /\ AtEof
    /\ UNCHANGED lexvars

\* ------------------------------------------------------- the input text

Letter(t) == [tok |-> t, text |-> <<t>>, lit |-> <<>>]
Num(text, v) == [tok |-> "num", text |-> text, lit |-> <<v>>]

\* the token sequences the input texts are written from
CanonInputs ==
    { <<Letter("D"), Num(<<"3">>, 3), Num(<<"1">>, 1), Letter("W"),
        Num(<<"0">>, 0), Num(<<"8">>, 8), Letter(";"), Letter("R"),
        Num(<<"1">>, 1)>>,
      <<Letter("D"), Num(<<"0", "x", "1", "0">>, 16), Num(<<"1">>, 1),
        Letter("R"), Num(<<"2">>, 2), Letter("R"), Num(<<"0", "1">>, 1)>>,
      <<Letter("D"), Num(<<"3">>, 3), Num(<<"1">>, 1), Letter("W"),
        Num(<<"2", "5", "5">>, 255),
        [tok |-> "invalid", text |-> <<"?">>, lit |-> <<>>]>>,
      <<Letter(";"), Letter("D"), Num(<<"1", "2", "7">>, 127),
        Num(<<"0">>, 0), Letter("W"), Num(<<"0", "X", "f", "F">>, 255),
        Letter("D")>> }

\* what may be written between two tokens: blanks, tabs, line ends, and
\* comments up to the end of the line
Seps ==
    { <<" ">>, <<" ", " ">>, <<"\t">>, <<"\n">>, <<"\r", "\n">>,
      <<" ", "\n", "\n", " ">>,
      <<"#", "\n">>,
      <<" ", "#", " ", "R", " ", "1", " ", ";", "\n">> }

\* the text of a token in lower case
Lowered(text) ==
    [i \in 1..Len(text) |->
        IF \E k \in 1..26 : UpperCase[k] = text[i]
        THEN LowerCase[CHOOSE k \in 1..26 : UpperCase[k] = text[i]]
        ELSE text[i]]

\* the tokens as written: separator s after token p, a blank after the
\* others and a line end after the last; the command letter of token low,
\* or every command letter when low is past the last token, in lower case
Present(toks, p, s, low) ==
    [i \in 1..Len(toks) |->
        [tok |-> toks[i].tok,
         lit |-> toks[i].lit,
         text |-> IF toks[i].tok \in {"D", "R", "W"} /\ low \in {i, Len(toks) + 1}
                  THEN Lowered(toks[i].text)
                  ELSE toks[i].text,
         sep |-> IF i = p THEN s
                 ELSE IF i = Len(toks) THEN <<"\n">> ELSE <<" ">>]]

RECURSIVE Flatten(_)
Flatten(items) ==
    IF items = <<>> THEN <<>>
    ELSE Head(items).text \o Head(items).sep \o Flatten(Tail(items))

\* the input is a text: one of the token sequences, written with one of the
\* separators at one place (p = 0: before the first token), or with nothing
\* after one of its numbers or after its last token
InitLex ==
    /\ InitMain
    /\ \E toks \in CanonInputs :
         \E p \in 0..Len(toks), s \in Seps \cup {<<>>}, low \in 0..(Len(toks) + 1) :
            /\ s = <<>> => p >= 1 /\ (p = Len(toks) \/ toks[p].tok = "num")
            /\ canon = Present(toks, p, s, low)
            /\ stdin = (IF p = 0 THEN s ELSE <<>>) \o Flatten(canon)

NextLex ==
    GetLine \/ EndOfLine \/ LexR \/ LexW \/ LexSemi \/ LexD \/ LexNum
        \/ LexDefault \/ LexEndOfInput

SpecLex == InitLex /\ [][NextLex]_vars

\* ------------------------------------------------------------ properties

\* the R and W statements whose message is in transact call k
DispatchedIds(k) ==
    {dispatches[k].msgs[j].id : j \in 1..Len(dispatches[k].msgs)}

\* the number of transact calls that carried the message of statement id
DispatchCount(id) ==
    Cardinality({k \in 1..Len(dispatches) : id \in DispatchedIds(k)})

\* the R statements that were part of a transact call
DispatchedReads ==
    UNION {{dispatches[k].msgs[j].id :
               j \in {i \in 1..Len(dispatches[k].msgs) : IsRead(dispatches[k].msgs[i])}} :
           k \in 1..Len(dispatches)}

\* C1: no message is ever in two transact calls, a run that ends with
\* success has handed every message to exactly one transact call, and the
\* batch is empty when a D has taken the parser to ADDR.
C1_DispatchedExactlyOnce ==
    /\ \A id \in 1..created : DispatchCount(id) <= 1
    /\ status = "exit0" => \A id \in 1..created : DispatchCount(id) = 1
    /\ (last.tok = "D" /\ state = ADDR) => nmsgs = 0

\* C2: all messages of one transact call carry the same device address.
C2_BatchOneDevice ==
    \A k \in 1..Len(dispatches) :
        \A i, j \in 1..Len(dispatches[k].msgs) :
            dispatches[k].msgs[i].addr = dispatches[k].msgs[j].addr

\* C3: before the first complete `D addr bus` an R or W is rejected as
\* unexpected, no message exists and no transact call is made.
C3_NoMessageBeforeD ==
    ~dseen =>
        /\ last.tok \in {"R", "W"} => status = "unexpected"
        /\ created = 0
        /\ dispatches = <<>>

\* C4: 0 <= nmsgs <= MAXMSGS, no slot beyond MAXMSGS - 1 is ever written,
\* a transact call carries at most MAXMSGS messages, and an R or W met with
\* MAXMSGS finalized messages dies with the capacity error without a
\* transact call.
C4_CapacityRespected ==
    /\ nmsgs \in 0..MAXMSGS
    /\ Len(msgs) <= MAXMSGS
    /\ (status = "running" /\ state \in {READ, WRITE, WRITING}) => nmsgs < MAXMSGS
    /\ \A k \in 1..Len(dispatches) :
          /\ dispatches[k].nmsgs \in 1..MAXMSGS
          /\ Len(dispatches[k].msgs) = dispatches[k].nmsgs
    /\ (last.tok \in {"R", "W"} /\ last.state \in {IDLE, WRITING} /\
        nmsgs >= MAXMSGS) =>
          (status = "capacity" /\ Len(dispatches) = last.ndisp)

\* C4 witness: the R or W after MAXMSGS messages, the last of them a write
\* that this token finalized, was rejected.
C4_Witness ==
    /\ status = "capacity"
    /\ last.state = WRITING
    /\ nmsgs = MAXMSGS
    /\ Len(msgs) = MAXMSGS

\* a message as a transact call may carry it
LegalMessage(m) ==
    IF IsRead(m)
    THEN m.len \in 1..MAXLEN
    ELSE /\ m.len \in 1..MAXLEN
         /\ Len(m.buf) = m.len
         /\ Len(m.given) = m.len
         /\ \A i \in 1..m.len :
               /\ m.buf[i] \in 0..255
               /\ m.given[i] = <<m.buf[i], 0>>

\* C5: every message of every transact call has a legal length, a write
\* carries the values of its numeric fields in the order they were given,
\* and a write of more than MAXLEN bytes dies without being dispatched.
C5_LegalMessages ==
    /\ \A k \in 1..Len(dispatches) :
          \A j \in 1..Len(dispatches[k].msgs) : LegalMessage(dispatches[k].msgs[j])
    /\ status = "write_len" =>
          /\ Len(dispatches) = last.ndisp
          /\ DispatchCount(msgs[nmsgs + 1].id) = 0

\* C5 witness: a write of MAXLEN bytes, not all equal, was dispatched.
C5_Witness ==
    \E k \in 1..Len(dispatches) :
        \E j \in 1..Len(dispatches[k].msgs) :
            LET m == dispatches[k].msgs[j]
            IN  /\ ~IsRead(m)
                /\ m.len = MAXLEN
                /\ \E i \in 1..m.len : m.buf[i] # m.buf[1]

\* C6: a run that ends with success in a formatted mode has printed as
\* many lines as there are R statements that were part of a transact call.
C6_OneLinePerRead ==
    (status = "exit0" /\ ~binary) => Len(out) = Cardinality(DispatchedReads)

\* C7: end of input in WRITING, or in IDLE with pending messages, makes
\* exactly one transact call, with all pending messages in order, and the
\* run ends with success (unless the transport fails).
C7_EndOfInputDispatches ==
    (last.tok = "eof" /\
     (last.state = WRITING \/ (last.state = IDLE /\ nmsgs # 0))) =>
        /\ Len(dispatches) = last.ndisp + 1
        /\ dispatches[Len(dispatches)].msgs = msgs
        /\ status \in {"exit0", "ioctl"}

\* C8: end of input in INIT, READ, WRITE, ADDR or BUS dies with the
\* unexpected-end-of-input error and makes no transact call.
C8_UnexpectedEndOfInput ==
    (last.tok = "eof" /\ last.state \in {INIT, READ, WRITE, ADDR, BUS}) =>
        /\ status = "eof"
        /\ Len(dispatches) = last.ndisp

\* C9: a numeric field whose literal value is outside its bounds is
\* rejected with the range error of its field, whatever its magnitude.
C9_OutOfRangeRejected ==
    last.tok = "num" =>
        /\ (last.state = ADDR /\ LitGt(last.lit, 127)) => status = "range_addr"
        /\ (last.state \in {WRITE, WRITING} /\ LitGt(last.lit, 255)) =>
              status = "range_write"
        /\ (last.state = READ /\ (LitLt(last.lit, 1) \/ LitGt(last.lit, MAXLEN))) =>
              status = "range_read"

\* one step of a fail-fast run
FailFastStep ==
    \* what was printed stays printed
    /\ Len(out') >= Len(out) /\ SubSeq(out', 1, Len(out)) = out
    \* after the run has ended nothing is dispatched or printed
    /\ status # "running" =>
          (status' = status /\ dispatches' = dispatches /\ out' = out)
    \* the step that detects an error prints nothing, and makes no transact
    \* call but the one whose ioctl failed
    /\ (status = "running" /\ status' \notin {"running", "exit0"}) =>
          /\ out' = out
          /\ IF status' = "ioctl"
             THEN /\ Len(dispatches') = Len(dispatches) + 1
                  /\ SubSeq(dispatches', 1, Len(dispatches)) = dispatches
                  /\ dispatches'[Len(dispatches')].ioctl = "failed"
             ELSE dispatches' = dispatches

\* C10: once an error is detected there is no further transact call and no
\* further output, the open transaction is not dispatched, a batch whose
\* ioctl failed prints nothing, and earlier output stays.
C10_FailFast == [][FailFastStep]_vars

\* C10 witness: the ioctl of a batch with a read failed after an earlier
\* transaction had printed its read.
C10_Witness ==
    /\ status = "ioctl"
    /\ Len(out) > 0
    /\ \E j \in 1..Len(msgs) : IsRead(msgs[j])
    /\ dispatches[Len(dispatches)].ioctl = "failed"
    /\ \E j \in 1..Len(dispatches[Len(dispatches)].msgs) :
          IsRead(dispatches[Len(dispatches)].msgs[j])

\* the read messages of the first k transact calls, in order
RECURSIVE ReadsUpTo(_)
ReadsUpTo(k) ==
    IF k = 0 THEN <<>>
    ELSE ReadsUpTo(k - 1) \o SelectSeq(dispatches[k].msgs, IsRead)

\* C11: in a dry run the ioctl is never issued and no bus descriptor is ever
\* opened or closed, and every dispatched read of length L is printed, in
\* order, as L bytes 0x55.
C11_DryRun ==
    dryrun =>
        /\ i2cfd = -1
        /\ fdtable = {}
        /\ \A k \in 1..Len(dispatches) : dispatches[k].ioctl = "skipped"
        /\ status \notin {"bus", "ioctl"}
        /\ LET reads == ReadsUpTo(Len(dispatches))
           IN  /\ Len(out) = Len(reads)
               /\ \A i \in 1..Len(out) :
                     /\ out[i].id = reads[i].id
                     /\ out[i].len = reads[i].len
                     /\ Len(out[i].data) = reads[i].len
                     /\ \A j \in 1..reads[i].len : out[i].data[j] = 85

\* C11 witness: a dry run has completed a D command and printed a read of
\* MAXLEN bytes.
C11_Witness ==
    /\ dryrun
    /\ dseen
    /\ \E i \in 1..Len(out) : out[i].len = MAXLEN /\ Len(out[i].data) = MAXLEN

\* a step that meets no pending message in IDLE, or at end of input
NothingPendingStep ==
    (state = IDLE /\ nmsgs = 0 /\ last'.tok \in {";", "D", "eof"}) =>
        (dispatches' = dispatches /\ out' = out)

\* C12: transact is never called with an empty batch, and a `;`, a D or the
\* end of input met in IDLE with no pending message makes no transact call
\* and prints nothing.
C12_NoEmptyDispatch ==
    /\ [](\A k \in 1..Len(dispatches) :
             dispatches[k].nmsgs >= 1 /\ Len(dispatches[k].msgs) >= 1)
    /\ [][NothingPendingStep]_vars

\* C12 witness: `D a b ; D a b ;` was read without any transact call or
\* output.
C12_Witness ==
    /\ ntok = 8
    /\ dseen
    /\ last.tok = ";" /\ last.state = IDLE
    /\ status = "running"
    /\ created = 0
    /\ dispatches = <<>>
    /\ out = <<>>

\* a D met in WRITING
DInWritingStep ==
    (state = WRITING /\ last'.tok = "D") =>
        /\ Len(dispatches') = Len(dispatches) + 1
        /\ LET d == dispatches'[Len(dispatches')]
           IN  /\ d.msgs = msgs
               /\ d.nmsgs = nmsgs + 1
               /\ d.fd = i2cfd
               /\ d.msgs[d.nmsgs].addr = addr
               /\ ~IsRead(d.msgs[d.nmsgs])
        /\ addr' = addr /\ i2cfd' = i2cfd /\ fdtable' = fdtable
        /\ status' \in {"running", "ioctl"}
        /\ status' = "running" => (state' = ADDR /\ nmsgs' = 0 /\ msgs' = <<>>)

\* C13: a D met in WRITING finalizes the write and dispatches the whole
\* pending transaction with the address and the descriptor of before, which
\* the step leaves unchanged, and the batch is empty when the parser
\* enters ADDR.
C13_DInWriting == [][DInWritingStep]_vars

\* C13 witness: a D met in WRITING dispatched a read and the write, and the
\* parser is in ADDR.
C13_Witness ==
    /\ last.tok = "D" /\ last.state = WRITING
    /\ state = ADDR
    /\ nmsgs = 0
    /\ Len(dispatches) = last.ndisp + 1
    /\ dispatches[Len(dispatches)].nmsgs = 2

\* the run has ended with an error
Failed == status \notin {"running", "exit0"}

\* C15 as stated: the run on the input `W 300` fails with the range error
\* of the write byte.
C15_W300RangeError ==
    ((ntok = 1 /\ last.tok = "W" /\ Failed) \/
     (ntok = 2 /\ last.tok = "num" /\ last.lit = <<300>> /\ Failed)) =>
        status = "range_write"

\* C15 amended: a W met in INIT, as in `W 300`, fails as an unexpected
\* token, and the field 300 met in WRITE or WRITING, as in `D 3 1 W 300`,
\* fails with the range error of the write byte.
C15_W300Amended ==
    /\ (last.tok = "W" /\ last.state = INIT) => status = "unexpected"
    /\ (last.tok = "num" /\ last.lit = <<300>> /\
        last.state \in {WRITE, WRITING}) => status = "range_write"

\* C15 witness: `D a b W 300` has failed with the range error.
C15_Witness ==
    /\ ntok = 5
    /\ dseen
    /\ last.tok = "num" /\ last.lit = <<300>> /\ last.state = WRITE
    /\ status = "range_write"

\* the number of R and W statements accepted before the last token
CreatedBefore ==
    IF last.tok \in {"R", "W"} /\ status = "running" THEN created - 1
    ELSE created

\* the last token was met in IDLE after nothing but `;` tokens
AfterLeadingSemis == last.state = IDLE /\ ~dseen /\ CreatedBefore = 0

\* C16: after leading `;` tokens the parser still behaves as in INIT: R, W
\* and numeric fields are unexpected, end of input is the unexpected end of
\* input, and nothing is dispatched.
C16_LeadingSemisKeepInit ==
    AfterLeadingSemis =>
        /\ last.tok \in {"R", "W", "num"} => status = "unexpected"
        /\ last.tok = "eof" => status = "eof"
        /\ dispatches = <<>>

\* the transact call made by the last token
LastDispatch == dispatches[Len(dispatches)]

\* C17: a token met in WRITING leaves the parser where the same token met
\* in IDLE leaves it, once the write is finalized: the same transact call,
\* the same state, the same pending messages and count.
C17_WritingAsIdle ==
    (last.state = WRITING /\ status = "running") =>
        /\ last.tok = ";" =>
              /\ Len(dispatches) = last.ndisp + 1
              /\ state = IDLE
              /\ nmsgs = AfterSemi(LastDispatch.nmsgs)
              /\ msgs = SubSeq(LastDispatch.msgs, 1, nmsgs)
        /\ last.tok = "D" =>
              /\ Len(dispatches) = last.ndisp + 1
              /\ state = ADDR
              /\ nmsgs = AfterD(IDLE, LastDispatch.nmsgs)
              /\ msgs = SubSeq(LastDispatch.msgs, 1, nmsgs)
        /\ last.tok \in {"R", "W"} =>
              /\ Len(dispatches) = last.ndisp
              /\ state = (IF last.tok = "R" THEN READ ELSE WRITE)
              /\ Len(msgs) = nmsgs + 1
              /\ msgs[nmsgs + 1].id = created

\* C18: without -n at most one bus descriptor is open, a failed open ends
\* the run without a transact call, and every transact call is made on the
\* descriptor that the last completed D opened.
C18_OneBusHandle ==
    ~dryrun =>
        /\ Cardinality(fdtable) <= 1
        /\ \A e \in fdtable : e.fd = i2cfd
        /\ status = "bus" => Len(dispatches) = last.ndisp
        /\ \A k \in 1..Len(dispatches) : dispatches[k].fd > 0

\* C20: no byte is stored at index MAXLEN or beyond of a message buffer:
\* the byte in excess is rejected before it is stored.
C20_StoreInBounds ==
    \A j \in 1..Len(msgs) : Len(msgs[j].buf) <= MAXLEN

\* every token of the text is followed by a separator
LegalText == \A i \in 1..(Len(canon) - 1) : canon[i].sep # <<>>

\* the tokens handled so far are the tokens the text was written from
TokensAsWritten ==
    /\ ntok <= Len(canon)
    /\ (ntok >= 1 /\ last.tok # "eof") =>
          (last.tok = canon[ntok].tok /\ last.lit = canon[ntok].lit)
    /\ last.tok = "eof" => ntok = Len(canon)

\* a step that ends a line or reads the next one
LineBoundaryStep == line' # line => mainvars' = mainvars

\* C14: the parser is handed the token sequence the text was written from,
\* each token once, in order and with its value, whatever the case of the
\* command letters and whatever blanks, line ends and comments separate
\* the tokens, so the transact calls depend on the tokens only; and the
\* parser state and the pending batch are the same after a line boundary
\* as before it.
C14_LexicalIndependence ==
    /\ [](LegalText => TokensAsWritten)
    /\ [][LineBoundaryStep]_vars

\* C14 witness: a text with a comment, a lower case command letter and
\* three lines was read to its end and made two transact calls.
C14_Witness ==
    /\ LegalText
    /\ \E i \in 1..Len(canon) : \E k \in 1..Len(canon[i].sep) : canon[i].sep[k] = "#"
    /\ \E i \in 1..Len(canon) : canon[i].text = <<"d">>
    /\ lines > 2
    /\ status = "exit0"
    /\ Len(dispatches) = 2

\* C19: a numeric field immediately followed by a character that is neither
\* whitespace nor the end of the line (nor the start of a comment) is not
\* accepted: the run ends with an error at that field.
C19_NumberNeedsSeparator ==
    (last.tok = "num" /\ ~isspace(follow) /\ follow \notin {NUL, "#"}) =>
        status # "running"

====
